---- MODULE Spec2Model ----
(***************************************************************************)
(* Model of the integration audit checks of scripts/audit:                 *)
(*   lib.py                         result builders, redact, run_cmd,      *)
(*                                  http_get, dig_txt, dig_mx              *)
(*   checks/check_domain_policy.py  is_policy_meta_reference, run          *)
(*   checks/check_mailgun.py        run                                    *)
(*                                                                         *)
(* Text.  A Python str is modelled as a sequence of tokens, each token a   *)
(* TLA+ string standing for a run of characters ("mx.zoho.com", " ",       *)
(* "\n", one character of an API key, ...).  The tokens are chosen so that *)
(* no text has two tokenisations, so equality, concatenation, strip,       *)
(* split, lower, replace and the substring test of Python are computed on  *)
(* the token sequences.  None is the one-token text NoneVal.               *)
(***************************************************************************)
EXTENDS Integers, Sequences, FiniteSets, TLC

VARIABLES
    prog,                \* which entry point this run executes
    pc,                  \* position of the running entry point
    env,                 \* the process environment (os.environ)
    ROOT_DOMAIN,         \* check_mailgun.ROOT_DOMAIN, set when the module loads
    EXPECTED_MG_DOMAIN,  \* check_mailgun.EXPECTED_MG_DOMAIN, set at load
    domain,              \* run(): local 'domain'
    api_key,             \* run(): local 'api_key'
    results,             \* run(): local 'results' (the per-step entries)
    queries,             \* external queries issued so far, in order
    seen,                \* answers received from the outside, by step
    retStep,             \* the step whose return statement ended run()
    result,              \* the value run() returned
    rgOut,               \* what the rg subprocess did, per forbidden pattern
    rgRecords,           \* the match records rg found, in scan order
    rdIn,                \* redact(): the arguments
    rdOut,               \* redact(): the returned text
    loadEnv,             \* the environment when check_mailgun was imported
    calls                \* invocations of check_mailgun.run() completed

vars == << prog, pc, env, ROOT_DOMAIN, EXPECTED_MG_DOMAIN, domain, api_key,
           results, queries, seen, retStep, result, rgOut, rgRecords, rdIn,
           rdOut, loadEnv, calls >>

-----------------------------------------------------------------------------
(* Bounds of the model *)

\* calls of check_mailgun.run() after the first one, in one process
MaxCalls == 2

\* longest API key (one more than redact's default window of 4)
MaxKeyLen == 5
\* longest value handed to redact
MaxLen == 4
\* largest visible_chars handed to redact
MaxVisible == 3
\* repetitions of a block of one or two match records in the search tool's
\* output (2 * 26 records exceed the cap of 50)
MaxReps == 26

-----------------------------------------------------------------------------
(* Python text primitives on token sequences *)

NoneVal == << "<None>" >>

Whitespace == {" ", "\n", "\t"}

\* str.strip()
Strip(s) ==
    LET keep == {i \in 1..Len(s) : s[i] \notin Whitespace}
    IN  IF keep = {} THEN << >>
        ELSE LET lo == CHOOSE i \in keep : \A j \in keep : i <= j
                 hi == CHOOSE i \in keep : \A j \in keep : j <= i
             IN  SubSeq(s, lo, hi)

\* str.lower(), token by token
LowerTok(t) ==
    CASE t = "MX.ZOHO.COM" -> "mx.zoho.com"
      [] t = "No"          -> "no"
      [] t = "FAIL"        -> "fail"
      [] t = "Policy"      -> "policy"
      [] OTHER             -> t

Lower(s) == [i \in 1..Len(s) |-> LowerTok(s[i])]

\* 'sub in s'
Contains(s, sub) ==
    \E i \in 1..(Len(s) - Len(sub) + 1) : SubSeq(s, i, i + Len(sub) - 1) = sub

\* str.replace(tok, '') for a one-token tok
Remove(s, tok) == SelectSeq(s, LAMBDA t : t # tok)

\* str.split(sep) for a one-token sep
RECURSIVE Split(_, _)
Split(s, sep) ==
    IF \A i \in 1..Len(s) : s[i] # sep THEN << s >>
    ELSE LET p == CHOOSE i \in 1..Len(s) :
                      s[i] = sep /\ \A j \in 1..(i - 1) : s[j] # sep
         IN  << SubSeq(s, 1, p - 1) >> \o Split(SubSeq(s, p + 1, Len(s)), sep)

\* '*' * n
RECURSIVE Stars(_)
Stars(n) == IF n <= 0 THEN << >> ELSE << "*" >> \o Stars(n - 1)

\* list[:n]
Take(l, n) == SubSeq(l, 1, IF Len(l) < n THEN Len(l) ELSE n)

\* truthiness of a str-or-None ('if x', 'not x', 'x or y')
Truthy(s) == s # NoneVal /\ s # << >>

-----------------------------------------------------------------------------
(* lib.py: result builders *)

NoData == [x \in {} |-> x]

ok(code, data)   == [status |-> "ok",   code |-> code, data |-> data]
fail(code, data) == [status |-> "fail", code |-> code, data |-> data]
warn(code, data) == [status |-> "warn", code |-> code, data |-> data]

NoResult == [status |-> "none", code |-> "none", data |-> NoData]

-----------------------------------------------------------------------------
(* lib.py: redact *)

\* redact that returns the secret as it is
redact_Unmasked(value, visible_chars) == value

redact(value, visible_chars) ==
    IF value = << >> THEN << "<empty>" >>
    ELSE IF Len(value) <= visible_chars THEN Stars(Len(value))
    ELSE Stars(Len(value) - visible_chars)
         \o (IF visible_chars = 0 THEN value   \* value[-0:] is value[0:]
             ELSE SubSeq(value, Len(value) - visible_chars + 1, Len(value)))

DEFAULT_VISIBLE == 4

-----------------------------------------------------------------------------
(* lib.py: run_cmd.  'proc' is what subprocess.run did: it returned           *)
(* ("exit", with the exit code and the captured streams) or raised            *)
(* TimeoutExpired ("timeout"), FileNotFoundError ("not_found") or another     *)
(* exception ("exception").  With check = True a non-zero exit raises         *)
(* CalledProcessError.                                                        *)

run_cmd(proc, check) ==
    CASE proc.kind = "exit" /\ ~(check /\ proc.returncode # 0) ->
            [success |-> proc.returncode = 0, returncode |-> proc.returncode,
             stdout |-> proc.stdout, stderr |-> proc.stderr]
      [] proc.kind = "timeout" ->
            [success |-> FALSE, returncode |-> -1, stdout |-> NoneVal,
             stderr |-> << "Command timed out" >>, error |-> "timeout"]
      [] proc.kind = "exit" /\ check /\ proc.returncode # 0 ->
            [success |-> FALSE, returncode |-> proc.returncode,
             stdout |-> proc.stdout, stderr |-> proc.stderr,
             error |-> "nonzero_exit"]
      [] proc.kind = "not_found" ->
            [success |-> FALSE, returncode |-> -1, stdout |-> NoneVal,
             stderr |-> << "No such file or directory" >>,
             error |-> "command_not_found"]
      [] OTHER ->
            [success |-> FALSE, returncode |-> -1, stdout |-> NoneVal,
             stderr |-> << "launch error" >>, error |-> "exception"]

Exit(code, out, err) ==
    [kind |-> "exit", returncode |-> code, stdout |-> out, stderr |-> err]

\* the ways a subprocess can fail to start or to finish
ProcFailures == {[kind |-> "timeout"], [kind |-> "not_found"], [kind |-> "exception"]}

-----------------------------------------------------------------------------
(* check_domain_policy.py *)

Forbidden == "insightpulseai.net"         \* the text  insightpulseai.net
ForbiddenEscaped == "insightpulseai\\.net"  \* the text  insightpulseai\.net

FORBIDDEN_PATTERNS == << "insightpulseai\\.net" >>

\* re.search(a + ".*" + b, s): token a somewhere before token b
SearchGap(s, a, b) ==
    \E i \in 1..Len(s) : \E j \in (i + 1)..Len(s) : s[i] = a /\ s[j] = b

\* re.search(a + "\s+" + b, s): a, one or more whitespace tokens, b
SearchWs(s, a, b) ==
    \E i \in 1..Len(s) : \E j \in (i + 2)..Len(s) :
        /\ s[i] = a
        /\ s[j] = b
        /\ \A k \in (i + 1)..(j - 1) : s[k] \in Whitespace

\* the first words of the meta patterns of the form  word.*insightpulseai\.net
\* (re.IGNORECASE: "FAIL" is matched as "fail")
MetaLeadWords ==
    {"forbidden", "checking", "block", "ensure", "fail", "pattern", "policy"}

is_policy_meta_reference(line) ==
    LET line_lower == Lower(line)
    IN  \/ SearchWs(line_lower, "no", Forbidden)
        \/ \E w \in MetaLeadWords : SearchGap(line_lower, w, Forbidden)
        \/ SearchGap(line_lower, Forbidden, "forbidden")
        \/ \E i \in 1..Len(line_lower) : line_lower[i] = ForbiddenEscaped

MATCH_LIMIT == 50

FixCommand == << "Run: find . -type f ... | xargs -0 perl -pi -e ..." >>

\* ScanPattern with the exit code left out of the test for matches
ScanPattern_AnyExitCode(pattern, proc) ==
    LET r == run_cmd(proc, FALSE)
        raw_matches == Split(Strip(r.stdout), "\n")
        real_violations ==
            SelectSeq(raw_matches, LAMBDA m : ~is_policy_meta_reference(m))
        violations == Take(real_violations, MATCH_LIMIT)
    IN  IF Truthy(r.stdout) /\ real_violations # << >>
        THEN [returned |-> TRUE,
              value |-> fail("forbidden_domain_found",
                             [pattern |-> pattern,
                              match_count |-> Len(violations),
                              matches |-> violations,
                              fix |-> FixCommand])]
        ELSE IF r.returncode \notin {0, 1}
        THEN [returned |-> FALSE,
              entry |-> [pattern |-> pattern, status |-> "error",
                         error |-> r.stderr]]
        ELSE [returned |-> FALSE,
              entry |-> [pattern |-> pattern, status |-> "clean"]]

\* the body of 'for pattern in FORBIDDEN_PATTERNS' for one pattern: either run()
\* returns from inside the loop (returned = TRUE) or an entry joins 'results'
ScanPattern(pattern, proc) ==
    LET r == run_cmd(proc, FALSE)
        raw_matches == Split(Strip(r.stdout), "\n")
        real_violations ==
            SelectSeq(raw_matches, LAMBDA m : ~is_policy_meta_reference(m))
        violations == Take(real_violations, MATCH_LIMIT)
    IN  IF r.returncode = 0 /\ Truthy(r.stdout) /\ real_violations # << >>
        THEN [returned |-> TRUE,
              value |-> fail("forbidden_domain_found",
                             [pattern |-> pattern,
                              match_count |-> Len(violations),
                              matches |-> violations,
                              fix |-> FixCommand])]
        ELSE IF r.returncode \notin {0, 1}
        THEN [returned |-> FALSE,
              entry |-> [pattern |-> pattern, status |-> "error",
                         error |-> r.stderr]]
        ELSE [returned |-> FALSE,
              entry |-> [pattern |-> pattern, status |-> "clean"]]

\* check_domain_policy.run(), procs[i] being what rg did for pattern i
RECURSIVE DomainPolicyLoop(_, _, _)
DomainPolicyLoop(i, procs, res) ==
    IF i > Len(FORBIDDEN_PATTERNS)
    THEN LET errors == SelectSeq(res, LAMBDA e : e.status = "error")
         IN  IF errors # << >>
             THEN fail("domain_check_error", [errors |-> errors])
             ELSE ok("domain_policy_ok",
                     [policy |-> << "no", " ", Forbidden, " ", "references" >>,
                      canonical_domain |-> << "insightpulseai.com" >>,
                      mailgun_domain |-> << "mg.", "insightpulseai.com" >>,
                      patterns_checked |-> FORBIDDEN_PATTERNS])
    ELSE LET step == ScanPattern(FORBIDDEN_PATTERNS[i], procs[i])
         IN  IF step.returned THEN step.value
             ELSE DomainPolicyLoop(i + 1, procs, Append(res, step.entry))

domain_policy_run(procs) == DomainPolicyLoop(1, procs, << >>)

-----------------------------------------------------------------------------
(* lib.py: environment, DNS and HTTP helpers *)

\* os.getenv(name, default): a variable that is not set has the value NoneVal
getenv(e, name, default) == IF e[name] = NoneVal THEN default ELSE e[name]

get_secret(e, name) == Strip(getenv(e, name, << >>))

dig_mx(proc) ==
    LET r == run_cmd(proc, FALSE)
    IN  IF ~r.success THEN << >>
        ELSE Strip(IF Truthy(r.stdout) THEN r.stdout ELSE << >>)

dig_txt(proc) ==
    LET r == run_cmd(proc, FALSE)
    IN  IF ~r.success THEN << >>
        ELSE Strip(Remove(IF Truthy(r.stdout) THEN r.stdout ELSE << >>, "\""))

NoStatus == -1    \* status_code None

\* an exception that leaves the function instead of a value
Raised(exc) == [raised |-> exc]
IsRaised(v) == "raised" \in DOMAIN v

\* 'resp' is what urlopen did: it returned a response ("ok"), or raised
\* HTTPError ("http_error"), URLError ("url_error") or another exception.
\* 'readable' tells whether read().decode("utf-8") of the body succeeds.  In
\* the try block a failure of it is caught by 'except Exception'; in the
\* 'except HTTPError' clause nothing catches it and it leaves http_get.
http_get(resp) ==
    CASE resp.kind = "ok" /\ resp.readable ->
            [success |-> TRUE, status_code |-> resp.status, body |-> resp.body]
      [] resp.kind = "http_error" /\ resp.fp /\ ~resp.readable ->
            Raised("UnicodeDecodeError")
      [] resp.kind = "http_error" ->
            [success |-> FALSE, status_code |-> resp.status,
             body |-> IF resp.fp THEN resp.body ELSE NoneVal,
             error |-> << "HTTP Error" >>]
      [] resp.kind = "url_error" ->
            [success |-> FALSE, status_code |-> NoStatus, body |-> NoneVal,
             error |-> << "connection refused" >>]
      [] OTHER ->
            [success |-> FALSE, status_code |-> NoStatus, body |-> NoneVal,
             error |-> << "request failed" >>]

-----------------------------------------------------------------------------
(* check_mailgun.py: module constants *)

DEFAULT_ROOT == << "insightpulseai.com" >>

\* the values the module-level assignments compute from the environment e
LoadRootDomain(e) == Strip(getenv(e, "ROOT_DOMAIN", DEFAULT_ROOT))
LoadExpectedMgDomain(e) ==
    Strip(getenv(e, "EXPECTED_MG_DOMAIN", << "mg." >> \o LoadRootDomain(e)))

ZOHO_MX_RECORDS ==
    << << "mx.zoho.com" >>, << "mx2.zoho.com" >>, << "mx3.zoho.com" >> >>
REQUIRED_SPF_INCLUDES ==
    << << "include:zohomail.com" >>, << "include:mailgun.org" >> >>
REQUIRED_MX == 3

Entry(name, status, detail) ==
    [name |-> name, status |-> status, detail |-> detail]

Returned(value) == [returned |-> TRUE, value |-> value]
Continue(entry) == [returned |-> FALSE, entry |-> entry]

(* check_mailgun.run(), one operator per numbered check: the check either
   returns from run() or appends an entry to 'results'.  The data of a result
   is modelled without its 'message' text, which is built from the other
   fields and is read nowhere. *)

\* Check1 with the two values of the mismatch report exchanged
Check1_Swapped(dom, expected) ==
    IF Truthy(dom)
    THEN IF dom # expected
         THEN Returned(fail("mailgun_domain_mismatch",
                            [expected |-> dom, actual |-> expected]))
         ELSE Continue(Entry("mailgun_domain", "ok", expected))
    ELSE Continue(Entry("mailgun_domain", "skip",
                        << "MAILGUN_DOMAIN not set" >>))

Check1(dom, expected) ==
    IF Truthy(dom)
    THEN IF dom # expected
         THEN Returned(fail("mailgun_domain_mismatch",
                            [expected |-> expected, actual |-> dom]))
         ELSE Continue(Entry("mailgun_domain", "ok", expected))
    ELSE Continue(Entry("mailgun_domain", "skip",
                        << "MAILGUN_DOMAIN not set" >>))

\* Check2 that is content with two of the three targets
Check2_TwoSuffice(mx_answer, root) ==
    LET mx_records == Lower(mx_answer)
        zoho_found == SelectSeq(ZOHO_MX_RECORDS,
                                LAMBDA z : Contains(mx_records, z))
    IN  IF ~Truthy(mx_records)
        THEN Continue(Entry("root_mx", "warn",
                            << "Could not query MX records" >>))
        ELSE IF Len(zoho_found) < REQUIRED_MX - 1
        THEN Returned(warn("root_mx_not_zoho",
                           [root_domain |-> root,
                            mx_records |-> Split(mx_records, "\n"),
                            expected |-> ZOHO_MX_RECORDS,
                            found |-> zoho_found]))
        ELSE Continue(Entry("root_mx", "ok", zoho_found))

Check2(mx_answer, root) ==
    LET mx_records == Lower(mx_answer)
        zoho_found == SelectSeq(ZOHO_MX_RECORDS,
                                LAMBDA z : Contains(mx_records, z))
    IN  IF ~Truthy(mx_records)
        THEN Continue(Entry("root_mx", "warn",
                            << "Could not query MX records" >>))
        ELSE IF Len(zoho_found) < REQUIRED_MX
        THEN Returned(warn("root_mx_not_zoho",
                           [root_domain |-> root,
                            mx_records |-> Split(mx_records, "\n"),
                            expected |-> ZOHO_MX_RECORDS,
                            found |-> zoho_found]))
        ELSE Continue(Entry("root_mx", "ok", zoho_found))

Check3(root_spf, root) ==
    LET missing_includes ==
            SelectSeq(REQUIRED_SPF_INCLUDES,
                      LAMBDA inc : ~Contains(root_spf, inc))
    IN  IF ~Contains(root_spf, << "v=spf1" >>)
        THEN Returned(warn("spf_missing",
                           [root_domain |-> root,
                            spf |-> IF Truthy(root_spf) THEN root_spf
                                    ELSE << "<empty>" >>]))
        ELSE IF missing_includes # << >>
        THEN Returned(warn("spf_missing_includes",
                           [root_domain |-> root, spf |-> root_spf,
                            missing |-> missing_includes]))
        ELSE Continue(Entry("root_spf", "ok", root_spf))

\* Check4 that notes a missing DMARC record and goes on
Check4_NoReturn(dmarc, root) ==
    IF ~Contains(dmarc, << "v=DMARC1" >>)
    THEN Continue(Entry("dmarc", "warn", << "DMARC record missing" >>))
    ELSE Continue(Entry("dmarc", "ok", dmarc))

Check4(dmarc, root) ==
    IF ~Contains(dmarc, << "v=DMARC1" >>)
    THEN Returned(warn("dmarc_missing",
                       [root_domain |-> root,
                        dmarc |-> IF Truthy(dmarc) THEN dmarc
                                  ELSE << "<empty>" >>]))
    ELSE Continue(Entry("dmarc", "ok", dmarc))

\* Check5 that reports a subdomain SPF without mailgun.org as a hard failure
Check5_InvalidFails(mg_spf, expected) ==
    IF ~Contains(mg_spf, << "v=spf1" >>)
    THEN Returned(warn("mg_spf_missing",
                       [mg_domain |-> expected,
                        spf |-> IF Truthy(mg_spf) THEN mg_spf
                                ELSE << "<empty>" >>]))
    ELSE IF ~Contains(mg_spf, << "include:mailgun.org" >>)
    THEN Returned(fail("mg_spf_invalid",
                       [mg_domain |-> expected, spf |-> mg_spf]))
    ELSE Continue(Entry("mg_spf", "ok", mg_spf))

Check5(mg_spf, expected) ==
    IF ~Contains(mg_spf, << "v=spf1" >>)
    THEN Returned(warn("mg_spf_missing",
                       [mg_domain |-> expected,
                        spf |-> IF Truthy(mg_spf) THEN mg_spf
                                ELSE << "<empty>" >>]))
    ELSE IF ~Contains(mg_spf, << "include:mailgun.org" >>)
    THEN Returned(warn("mg_spf_invalid",
                       [mg_domain |-> expected, spf |-> mg_spf]))
    ELSE Continue(Entry("mg_spf", "ok", mg_spf))

\* check 6, before the request: TRUE when the API call is skipped
ApiSkipped(key, dom) == ~Truthy(key) \/ ~Truthy(dom)

SkipResult(res, root, expected) ==
    ok("mailgun_dns_checks_passed",
       [checks |-> Append(res, Entry("mailgun_api", "skip",
                                     << "Credentials not provided" >>)),
        root_domain |-> root, mg_domain |-> expected])

\* Check6 that treats HTTP 404 like any other error status
Check6_404Warns(response, res, key, dom, root) ==
    IF ~response.success
    THEN IF response.status_code = 401
         THEN fail("mailgun_auth_failed",
                   [domain |-> dom, api_key |-> redact(key, DEFAULT_VISIBLE)])
         ELSE warn("mailgun_api_error",
                   [domain |-> dom, status_code |-> response.status_code,
                    error |-> response.error])
    ELSE ok("mailgun_full_check_passed",
            [checks |-> Append(res, Entry("mailgun_api", "ok", dom)),
             root_domain |-> root, mg_domain |-> dom,
             api_key |-> redact(key, DEFAULT_VISIBLE)])

\* check 6, after the request
Check6(response, res, key, dom, root) ==
    IF ~response.success
    THEN IF response.status_code = 401
         THEN fail("mailgun_auth_failed",
                   [domain |-> dom, api_key |-> redact(key, DEFAULT_VISIBLE)])
         ELSE IF response.status_code = 404
         THEN fail("mailgun_domain_not_found", [domain |-> dom])
         ELSE warn("mailgun_api_error",
                   [domain |-> dom, status_code |-> response.status_code,
                    error |-> response.error])
    ELSE ok("mailgun_full_check_passed",
            [checks |-> Append(res, Entry("mailgun_api", "ok", dom)),
             root_domain |-> root, mg_domain |-> dom,
             api_key |-> redact(key, DEFAULT_VISIBLE)])

\* the external queries run() issues
DigQuery(type, name) == [op |-> "dig", type |-> type, name |-> name]
GetQuery(dom) ==
    [op |-> "GET", type |-> "https",
     name |-> << "https://api.mailgun.net/v3/" >> \o dom]

-----------------------------------------------------------------------------
(* The outside world: environments, subprocess outcomes, HTTP outcomes *)

EnvNames == {"ROOT_DOMAIN", "EXPECTED_MG_DOMAIN", "MAILGUN_DOMAIN",
             "MAILGUN_API_KEY"}

KeyChars == {"k", "*"}

ApiKeys == UNION {[1..n -> KeyChars] : n \in 0..MaxKeyLen}

RootValues == {NoneVal, << "example.org" >>}
ExpectedValues == {NoneVal, << "mail.", "example.org" >>}
DomainValues ==
    {NoneVal, << >>, << " " >>,
     << "mg.", "insightpulseai.com" >>,
     << " ", "mg.", "insightpulseai.com", "\n" >>,
     << "mg.", "example.org" >>,
     << "mail.", "example.org" >>,
     << "wrong.com" >>}
KeyValues == {NoneVal, << " ", "k", "k", "\t" >>} \cup ApiKeys

Environments ==
    {[n \in EnvNames |->
        CASE n = "ROOT_DOMAIN" -> r
          [] n = "EXPECTED_MG_DOMAIN" -> x
          [] n = "MAILGUN_DOMAIN" -> d
          [] OTHER -> k] :
     r \in RootValues, x \in ExpectedValues, d \in DomainValues,
     k \in KeyValues}

NoEnv == [n \in EnvNames |-> NoneVal]

\* 'dig +short MX' output: one line "10 host." per host
RECURSIVE MxText(_)
MxText(hosts) ==
    IF hosts = << >> THEN << >>
    ELSE << "10 ", Head(hosts), ".", "\n" >> \o MxText(Tail(hosts))

MxProcs ==
    {Exit(0, MxText(h), << >>) :
        h \in {<< "mx.zoho.com", "mx2.zoho.com", "mx3.zoho.com" >>,
               << "mx3.zoho.com", "mx2.zoho.com", "MX.ZOHO.COM" >>,
               << "mx.zoho.com", "mx3.zoho.com" >>,
               << "mail.other.com", "mx2.zoho.com" >>,
               << "mail.other.com" >>,
               << >>}}
    \cup {Exit(9, << >>, << "dig: couldn't get address" >>)}
    \cup ProcFailures

\* 'dig +short TXT' output: each record quoted on a line of its own
TxtLine(toks) == << "\"" >> \o toks \o << "\"", "\n" >>

TxtProcs ==
    {Exit(0, t, << >>) :
        t \in {TxtLine(<< "v=spf1", " ", "include:zohomail.com", " ",
                          "include:mailgun.org", " ", "~all" >>),
               TxtLine(<< "site-verification=1" >>)
                 \o TxtLine(<< "v=spf1", " ", "include:mailgun.org", " ",
                               "include:zohomail.com", " ", "~all" >>),
               TxtLine(<< "v=spf1", " ", "include:zohomail.com", " ", "~all" >>),
               TxtLine(<< "v=spf1", " ", "include:mailgun.org", " ", "~all" >>),
               TxtLine(<< "v=spf1", " ", "~all" >>),
               TxtLine(<< "v=DMARC1", ";", " ", "p=none" >>),
               TxtLine(<< "site-verification=1" >>),
               << >>}}
    \cup {Exit(9, << >>, << "dig: couldn't get address" >>)}
    \cup ProcFailures

HttpOutcomes ==
    {[kind |-> "ok", status |-> 200, body |-> << "{}" >>, readable |-> r] :
            r \in BOOLEAN}
    \cup {[kind |-> "url_error"], [kind |-> "exception"]}
    \cup {[kind |-> "http_error", status |-> c, fp |-> f, body |-> << "{}" >>,
           readable |-> r] :
            c \in {401, 403, 404, 500}, f \in BOOLEAN, r \in BOOLEAN}

-----------------------------------------------------------------------------
(* check_mailgun.run() as a process: one action per stretch of code between
   two external queries; the action receives the answer to the pending query *)

MailgunIdle ==
    /\ env = NoEnv /\ loadEnv = NoEnv /\ calls = 0
    /\ ROOT_DOMAIN = LoadRootDomain(NoEnv)
    /\ EXPECTED_MG_DOMAIN = LoadExpectedMgDomain(NoEnv)
    /\ domain = << >> /\ api_key = << >>
    /\ results = << >> /\ queries = << >> /\ seen = << >>
    /\ retStep = 0

DomainPolicyIdle == rgOut = << >> /\ rgRecords = << >>

RedactIdle == rdIn = [value |-> << >>, visible_chars |-> 0] /\ rdOut = NoneVal

\* the module is loaded and run() is about to be called
InitMailgun ==
    /\ prog = "mailgun" /\ pc = "start"
    /\ env \in Environments
    /\ loadEnv = env /\ calls = 0
    /\ ROOT_DOMAIN = LoadRootDomain(loadEnv)
    /\ EXPECTED_MG_DOMAIN = LoadExpectedMgDomain(loadEnv)
    /\ domain = << >> /\ api_key = << >>
    /\ results = << >> /\ queries = << >> /\ seen = << >>
    /\ retStep = 0
    /\ result = NoResult
    /\ DomainPolicyIdle /\ RedactIdle

MailgunFixed ==
    UNCHANGED << prog, env, ROOT_DOMAIN, EXPECTED_MG_DOMAIN, rgOut, rgRecords,
                 rdIn, rdOut, loadEnv, calls >>

\* the step either ends run() with its value or goes on to the next query
Proceed(step, n, nextPc, nextQuery) ==
    IF step.returned
    THEN /\ result' = step.value
         /\ retStep' = n
         /\ pc' = "done"
         /\ UNCHANGED << results, queries >>
    ELSE /\ results' = Append(results, step.entry)
         /\ queries' = Append(queries, nextQuery)
         /\ pc' = nextPc
         /\ UNCHANGED << result, retStep >>

\* run() with the secrets taken from the environment the module was loaded in
MailgunStart_SecretsAtLoad ==
    /\ prog = "mailgun" /\ pc = "start"
    /\ domain' = get_secret(loadEnv, "MAILGUN_DOMAIN")
    /\ api_key' = get_secret(loadEnv, "MAILGUN_API_KEY")
    /\ Proceed(Check1(domain', EXPECTED_MG_DOMAIN), 1, "mx",
               DigQuery("MX", ROOT_DOMAIN))
    /\ UNCHANGED seen
    /\ MailgunFixed

MailgunStart ==
    /\ prog = "mailgun" /\ pc = "start"
    /\ domain' = get_secret(env, "MAILGUN_DOMAIN")
    /\ api_key' = get_secret(env, "MAILGUN_API_KEY")
    /\ Proceed(Check1(domain', EXPECTED_MG_DOMAIN), 1, "mx",
               DigQuery("MX", ROOT_DOMAIN))
    /\ UNCHANGED seen
    /\ MailgunFixed

MailgunRootMX ==
    /\ prog = "mailgun" /\ pc = "mx"
    /\ \E proc \in MxProcs :
          /\ seen' = Append(seen, proc)
          /\ Proceed(Check2(dig_mx(proc), ROOT_DOMAIN), 2, "spf",
                     DigQuery("TXT", ROOT_DOMAIN))
    /\ UNCHANGED << domain, api_key >>
    /\ MailgunFixed

MailgunRootSPF ==
    /\ prog = "mailgun" /\ pc = "spf"
    /\ \E proc \in TxtProcs :
          /\ seen' = Append(seen, proc)
          /\ Proceed(Check3(dig_txt(proc), ROOT_DOMAIN), 3, "dmarc",
                     DigQuery("TXT", << "_dmarc." >> \o ROOT_DOMAIN))
    /\ UNCHANGED << domain, api_key >>
    /\ MailgunFixed

MailgunDMARC ==
    /\ prog = "mailgun" /\ pc = "dmarc"
    /\ \E proc \in TxtProcs :
          /\ seen' = Append(seen, proc)
          /\ Proceed(Check4(dig_txt(proc), ROOT_DOMAIN), 4, "mg_spf",
                     DigQuery("TXT", EXPECTED_MG_DOMAIN))
    /\ UNCHANGED << domain, api_key >>
    /\ MailgunFixed

\* check 5, then check 6 up to the request
MailgunMgSPF ==
    /\ prog = "mailgun" /\ pc = "mg_spf"
    /\ \E proc \in TxtProcs :
          LET step == Check5(dig_txt(proc), EXPECTED_MG_DOMAIN)
              res == Append(results, step.entry)
          IN  /\ seen' = Append(seen, proc)
              /\ IF step.returned
                 THEN Proceed(step, 5, "api", GetQuery(domain))
                 ELSE IF ApiSkipped(api_key, domain)
                 THEN /\ result' = SkipResult(res, ROOT_DOMAIN,
                                              EXPECTED_MG_DOMAIN)
                      /\ retStep' = 6
                      /\ pc' = "done"
                      /\ results' = Append(res, Entry("mailgun_api", "skip",
                                              << "Credentials not provided" >>))
                      /\ UNCHANGED queries
                 ELSE Proceed(step, 5, "api", GetQuery(domain))
    /\ UNCHANGED << domain, api_key >>
    /\ MailgunFixed

\* an exception out of http_get is not caught by run() and ends the call
MailgunAPI ==
    /\ prog = "mailgun" /\ pc = "api"
    /\ \E resp \in HttpOutcomes :
          LET response == http_get(resp)
              value == Check6(response, results, api_key, domain, ROOT_DOMAIN)
          IN  /\ seen' = Append(seen, resp)
              /\ IF IsRaised(response)
                 THEN /\ pc' = "raised"
                      /\ UNCHANGED << result, results, retStep >>
                 ELSE /\ pc' = "done"
                      /\ result' = value
                      /\ results' = IF value.status = "ok"
                                    THEN value.data.checks ELSE results
                      /\ retStep' = 6
    /\ UNCHANGED << domain, api_key, queries >>
    /\ MailgunFixed

NextMailgun ==
    \/ MailgunStart
    \/ MailgunRootMX
    \/ MailgunRootSPF
    \/ MailgunDMARC
    \/ MailgunMgSPF
    \/ MailgunAPI

SpecMailgun == InitMailgun /\ [][NextMailgun]_vars

-----------------------------------------------------------------------------
(* check_mailgun in a long-lived process: the module is imported once, then
   run() is called again and again while the environment changes in between *)

EnvValues ==
    [ROOT_DOMAIN |-> {NoneVal, << "example.org" >>},
     EXPECTED_MG_DOMAIN |-> {NoneVal, << "mail.", "example.org" >>},
     MAILGUN_DOMAIN |-> {NoneVal, << "mg.", "insightpulseai.com" >>,
                         << "mail.", "example.org" >>},
     MAILGUN_API_KEY |-> {NoneVal, << "k" >>}]

CallEnvironments == {e \in Environments : \A n \in EnvNames : e[n] \in EnvValues[n]}

\* the module has just been imported and run() is about to be called
InitCalls == InitMailgun /\ env \in CallEnvironments

\* between two calls the caller sets or unsets one environment variable
SetEnv ==
    /\ prog = "mailgun" /\ pc = "start"
    /\ \E n \in EnvNames : \E v \in EnvValues[n] :
          /\ env[n] # v
          /\ env' = [env EXCEPT ![n] = v]
    /\ UNCHANGED << prog, pc, ROOT_DOMAIN, EXPECTED_MG_DOMAIN, domain, api_key,
                    results, queries, seen, retStep, result, rgOut, rgRecords,
                    rdIn, rdOut, loadEnv, calls >>

\* run() has ended and is called again: its locals are gone, the module
\* globals stay as they are
RunAgain ==
    /\ prog = "mailgun" /\ pc \in {"done", "raised"}
    /\ calls < MaxCalls
    /\ calls' = calls + 1
    /\ pc' = "start"
    /\ domain' = << >> /\ api_key' = << >>
    /\ results' = << >> /\ queries' = << >> /\ seen' = << >>
    /\ retStep' = 0
    /\ result' = NoResult
    /\ UNCHANGED << prog, env, ROOT_DOMAIN, EXPECTED_MG_DOMAIN, rgOut,
                    rgRecords, rdIn, rdOut, loadEnv >>

NextCalls ==
    \/ NextMailgun
    \/ SetEnv
    \/ RunAgain

SpecCalls == InitCalls /\ [][NextCalls]_vars

-----------------------------------------------------------------------------
(* check_domain_policy.run() on the outputs of the search tool *)

\* a match record of 'rg -n': path:line:text
RecordText(rec) == rec.file \o << ":", rec.line, ":" >> \o rec.text

MatchFiles == {<< "./src/", "app.py" >>, << "./docs/", "policy", ".md" >>}

\* lines that contain the forbidden domain (rg prints no others)
MatchTexts ==
    {<< "see", " ", "https://", Forbidden, "/" >>,
     << "no", " ", Forbidden, " ", "references", " ", "allowed" >>,
     << "No", " ", "\t", Forbidden >>,
     << "FAIL", " ", "on", " ", Forbidden >>,
     << "no", Forbidden >>}

MatchRecords ==
    {[file |-> f, line |-> "7", text |-> t] : f \in MatchFiles, t \in MatchTexts}

Blocks ==
    {<< r >> : r \in MatchRecords}
    \cup {<< r1, r2 >> : r1 \in MatchRecords, r2 \in MatchRecords}

RECURSIVE Repeat(_, _)
Repeat(block, n) == IF n <= 0 THEN << >> ELSE block \o Repeat(block, n - 1)

\* the stdout of rg for a list of match records: one record per line
RECURSIVE RgText(_)
RgText(recs) ==
    IF recs = << >> THEN << >>
    ELSE RecordText(Head(recs)) \o << "\n" >> \o RgText(Tail(recs))

\* rg exits 0 with matches, 1 without, 2 on an error (whatever it matched)
RgScans ==
    {[records |-> Repeat(b, n), code |-> 0] : b \in Blocks, n \in 1..MaxReps}
    \cup {[records |-> << >>, code |-> 1]}
    \cup {[records |-> b, code |-> c] : b \in Blocks \cup {<< >>}, c \in {2, -9}}

InitDomainPolicy ==
    /\ prog = "domain_policy" /\ pc = "start"
    /\ \/ \E scan \in RgScans :
             /\ rgRecords = scan.records
             /\ rgOut = << Exit(scan.code, RgText(scan.records),
                                IF scan.code \in {0, 1} THEN << >>
                                ELSE << "rg: error" >>) >>
       \/ \E f \in ProcFailures : rgRecords = << >> /\ rgOut = << f >>
    /\ result = NoResult
    /\ MailgunIdle /\ RedactIdle

DomainPolicyRun ==
    /\ prog = "domain_policy" /\ pc = "start"
    /\ result' = domain_policy_run(rgOut)
    /\ pc' = "done"
    /\ UNCHANGED << prog, env, ROOT_DOMAIN, EXPECTED_MG_DOMAIN, domain,
                    api_key, results, queries, seen, retStep, rgOut,
                    rgRecords, rdIn, rdOut, loadEnv, calls >>

NextDomainPolicy == DomainPolicyRun

SpecDomainPolicy == InitDomainPolicy /\ [][NextDomainPolicy]_vars

-----------------------------------------------------------------------------
(* redact() on bounded inputs *)

RedactChars == {"a", "b", "*"}

RedactValues == UNION {[1..n -> RedactChars] : n \in 0..MaxLen}

InitRedact ==
    /\ prog = "redact" /\ pc = "start"
    /\ rdIn \in [value : RedactValues, visible_chars : 0..MaxVisible]
    /\ rdOut = NoneVal
    /\ result = NoResult
    /\ MailgunIdle /\ DomainPolicyIdle

RedactCall ==
    /\ prog = "redact" /\ pc = "start"
    /\ rdOut' = redact(rdIn.value, rdIn.visible_chars)
    /\ pc' = "done"
    /\ UNCHANGED << prog, env, ROOT_DOMAIN, EXPECTED_MG_DOMAIN, domain,
                    api_key, results, queries, seen, retStep, result, rgOut,
                    rgRecords, rdIn, loadEnv, calls >>

NextRedact == RedactCall

SpecRedact == InitRedact /\ [][NextRedact]_vars

-----------------------------------------------------------------------------
(* The three entry points together *)

Init == InitMailgun \/ InitDomainPolicy \/ InitRedact

Next == NextCalls \/ NextDomainPolicy \/ NextRedact

Spec == Init /\ [][Next]_vars

-----------------------------------------------------------------------------
(* Claims about the domain policy check *)

DomainPolicyDone == prog = "domain_policy" /\ pc = "done"

\* the scan tool itself errored: it did not run to an exit code of 0 or 1
ToolErrored(proc) == proc.kind # "exit" \/ proc.returncode \notin {0, 1}

\* a record is a meta-reference when the text of its line matches
TextIsMeta(rec) == is_policy_meta_reference(rec.text)

NonMetaRecords == SelectSeq(rgRecords, LAMBDA r : ~TextIsMeta(r))

ReportedMatches ==
    IF result.code = "forbidden_domain_found" THEN result.data.matches
    ELSE << >>

\* C1: when the search tool finds zero matches the result is ok
\* (domain_policy_ok); when n >= 1 non-meta match records exist the result is
\* fail (forbidden_domain_found), data.matches is the first min(n, 50) non-meta
\* records in scan order and data.match_count is the length of data.matches.
C1_AsClaimed ==
    (DomainPolicyDone /\ ~ToolErrored(rgOut[1])) =>
        LET n == Len(NonMetaRecords)
            m == IF n < 50 THEN n ELSE 50
        IN  /\ rgRecords = << >> =>
                 result.status = "ok" /\ result.code = "domain_policy_ok"
            /\ n >= 1 =>
                 /\ result.status = "fail"
                 /\ result.code = "forbidden_domain_found"
                 /\ result.data.matches =
                        [i \in 1..m |-> RecordText(NonMetaRecords[i])]
                 /\ result.data.match_count = Len(result.data.matches)

\* C1 read with the filter run() applies (the pattern search over the whole
\* record, path included): the counts, the cap and the order are as claimed.
C1_WithRecordFilter ==
    (DomainPolicyDone /\ ~ToolErrored(rgOut[1])) =>
        LET kept == SelectSeq(rgRecords, LAMBDA r :
                        ~is_policy_meta_reference(RecordText(r)))
            n == Len(kept)
            m == IF n < 50 THEN n ELSE 50
        IN  /\ n = 0 => result.status = "ok" /\ result.code = "domain_policy_ok"
            /\ n >= 1 =>
                 /\ result.status = "fail"
                 /\ result.code = "forbidden_domain_found"
                 /\ result.data.matches = [i \in 1..m |-> RecordText(kept[i])]
                 /\ result.data.match_count = Len(result.data.matches)

\* C2: a match record is excluded from the violations exactly when the text of
\* its line matches a meta-reference pattern (case-insensitively); the file
\* path and the line number have no influence.
C2_AsClaimed ==
    (/\ DomainPolicyDone
     /\ ~ToolErrored(rgOut[1])
     /\ Len(rgRecords) <= MATCH_LIMIT) =>
        \A i \in 1..Len(rgRecords) :
            TextIsMeta(rgRecords[i]) <=>
                ~(\E j \in 1..Len(ReportedMatches) :
                      ReportedMatches[j] = RecordText(rgRecords[i]))

-----------------------------------------------------------------------------
(* Claims about redact *)

RedactDone == prog = "redact" /\ pc = "done"

\* C10: for every value (the empty string included) and every
\* visible_chars >= 0 (0 included) every position of the output other than its
\* last visible_chars is the mask character, and when
\* len(value) <= visible_chars the output is len(value) mask characters.
C10_AsClaimed ==
    RedactDone =>
        /\ \A i \in 1..(Len(rdOut) - rdIn.visible_chars) : rdOut[i] = "*"
        /\ Len(rdIn.value) <= rdIn.visible_chars =>
               rdOut = Stars(Len(rdIn.value))

\* for non-empty values and a window of at least one character the output
\* is the mask followed by the last visible_chars characters
C10_NonEmptyPositiveWindow ==
    (RedactDone /\ rdIn.value # << >> /\ rdIn.visible_chars >= 1) =>
        LET n == Len(rdIn.value)
            v == rdIn.visible_chars
        IN  /\ Len(rdOut) = n
            /\ \A i \in 1..n :
                  rdOut[i] = IF i > n - v /\ n > v THEN rdIn.value[i] ELSE "*"

\* with visible_chars = 0 a non-empty value would come out as mask only
C10_ZeroWindowMasksAll ==
    (RedactDone /\ rdIn.value # << >> /\ rdIn.visible_chars = 0) =>
        rdOut = Stars(Len(rdIn.value))

-----------------------------------------------------------------------------
(* Claims about the Mailgun check *)

MailgunDone == prog = "mailgun" /\ pc = "done"

\* an environment value that is unset or empty after trimming
Blank(v) == v = NoneVal \/ \A i \in 1..Len(v) : v[i] \in Whitespace

\* the dig lookup produced an answer: it exited 0 with non-blank output
Answered(proc) ==
    proc.kind = "exit" /\ proc.returncode = 0 /\ ~Blank(proc.stdout)

AnswerText(proc) == IF Answered(proc) THEN proc.stdout ELSE << >>

\* the expected Zoho targets present in an MX answer, in the expected order
ZohoPresent(proc) ==
    SelectSeq(ZOHO_MX_RECORDS,
              LAMBDA z : Contains(Lower(AnswerText(proc)), z))

HasToken(proc, tok) == \E i \in 1..Len(AnswerText(proc)) : AnswerText(proc)[i] = tok

\* the requirement of step k (2..5) is not met by the answer to its query
Unmet(k, proc) ==
    CASE k = 2 -> Len(ZohoPresent(proc)) < 3
      [] k = 3 -> ~(/\ HasToken(proc, "v=spf1")
                    /\ HasToken(proc, "include:zohomail.com")
                    /\ HasToken(proc, "include:mailgun.org"))
      [] k = 4 -> ~HasToken(proc, "v=DMARC1")
      [] OTHER -> ~(HasToken(proc, "v=spf1") /\ HasToken(proc, "include:mailgun.org"))

\* as Unmet, but an empty or failed MX answer does not count at step 2
UnmetAnswered(k, proc) == Unmet(k, proc) /\ (k = 2 => Answered(proc))

\* step 1 hard-fails: MAILGUN_DOMAIN is set and is not the expected subdomain
DomainMismatch ==
    /\ ~Blank(env["MAILGUN_DOMAIN"])
    /\ Strip(env["MAILGUN_DOMAIN"]) # EXPECTED_MG_DOMAIN

\* C4: whenever step 1 does not fail and the MX answer holds fewer than all 3
\* expected Zoho targets (an empty or failed answer included), the result is
\* warn root_mx_not_zoho and data.found is the list of the targets present.
C4_AsClaimed ==
    (/\ MailgunDone
     /\ Len(seen) >= 1
     /\ Len(ZohoPresent(seen[1])) < 3) =>
        /\ result.status = "warn"
        /\ result.code = "root_mx_not_zoho"
        /\ result.data.found = ZohoPresent(seen[1])

\* C4 amended: a non-empty MX answer with fewer than 3 of the targets ends
\* run() at step 2 with warn root_mx_not_zoho and data.found the targets
\* present; an empty or failed MX answer is recorded as the entry
\* (root_mx, warn) and run() goes on to the root SPF query.
C4_PartialMxWarns ==
    (prog = "mailgun" /\ Len(seen) >= 1) =>
        /\ (Answered(seen[1]) /\ Len(ZohoPresent(seen[1])) < 3) =>
              /\ pc = "done" /\ retStep = 2
              /\ result.status = "warn"
              /\ result.code = "root_mx_not_zoho"
              /\ result.data.found = ZohoPresent(seen[1])
        /\ ~Answered(seen[1]) =>
              /\ results[2] = Entry("root_mx", "warn",
                                    << "Could not query MX records" >>)
              /\ retStep # 2
              /\ Len(queries) >= 2
              /\ queries[2] = DigQuery("TXT", ROOT_DOMAIN)

\* two of the three targets are in the answer and are reported as found
C4_Witness ==
    /\ MailgunDone
    /\ result.code = "root_mx_not_zoho"
    /\ result.data.found = << << "mx.zoho.com" >>, << "mx3.zoho.com" >> >>

\* the HTTP GET requests issued so far
GetRequests == SelectSeq(queries, LAMBDA q : q.op = "GET")

CheckNames == [i \in 1..Len(results) |-> results[i].name]

\* C5: step 6, reached when steps 1-5 pass.  If the API key or the configured
\* domain is absent no HTTP request is made and the result is ok
\* mailgun_dns_checks_passed with the API check recorded as skipped; otherwise
\* exactly one GET is made and 401 gives fail mailgun_auth_failed, 404 gives
\* fail mailgun_domain_not_found, any other non-success gives warn
\* mailgun_api_error, success gives ok mailgun_full_check_passed carrying the
\* entries of all six steps.
C5_ApiStep ==
    (prog = "mailgun" /\ Len(results) >= 5) =>
        IF Blank(env["MAILGUN_API_KEY"]) \/ Blank(env["MAILGUN_DOMAIN"])
        THEN /\ GetRequests = << >>
             /\ pc = "done"
             /\ result.status = "ok"
             /\ result.code = "mailgun_dns_checks_passed"
             /\ Len(result.data.checks) = 6
             /\ result.data.checks[6].name = "mailgun_api"
             /\ result.data.checks[6].status = "skip"
        ELSE /\ GetRequests = << GetQuery(Strip(env["MAILGUN_DOMAIN"])) >>
             /\ pc \in {"api", "done"}
             /\ pc = "done" =>
                  LET resp == seen[5]
                  IN  CASE resp.kind = "http_error" /\ resp.status = 401 ->
                             /\ result.status = "fail"
                             /\ result.code = "mailgun_auth_failed"
                        [] resp.kind = "http_error" /\ resp.status = 404 ->
                             /\ result.status = "fail"
                             /\ result.code = "mailgun_domain_not_found"
                        [] resp.kind = "ok" /\ resp.readable ->
                             /\ result.status = "ok"
                             /\ result.code = "mailgun_full_check_passed"
                             /\ result.data.checks = results
                             /\ CheckNames = << "mailgun_domain", "root_mx",
                                                "root_spf", "dmarc", "mg_spf",
                                                "mailgun_api" >>
                        [] OTHER ->
                             /\ result.status = "warn"
                             /\ result.code = "mailgun_api_error"

\* C5 for the calls http_get returns from: the step-6 outcomes are as stated
\* whenever run() is not left by the exception of an unreadable error body.
C5_ApiStepUnlessRaised == pc # "raised" => C5_ApiStep

\* the API answered 404 to the one request made with key and domain present
C5_Witness ==
    /\ MailgunDone
    /\ Len(seen) = 5 /\ seen[5].kind = "http_error" /\ seen[5].status = 404
    /\ Len(GetRequests) = 1
    /\ result.code = "mailgun_domain_not_found"

\* C6: step 1.  MAILGUN_DOMAIN set (non-empty after trimming) and different
\* from the expected subdomain gives fail mailgun_domain_mismatch with
\* data.expected the expected subdomain ('mg.' + root domain by default) and
\* data.actual the configured value; equal to it, step 1 passes; absent, step
\* 1 is recorded as skip and never fails.
C6_Step1 ==
    (prog = "mailgun" /\ pc # "start") =>
        LET configured == Strip(getenv(env, "MAILGUN_DOMAIN", << >>))
            expected == IF env["EXPECTED_MG_DOMAIN"] = NoneVal
                        THEN << "mg." >> \o ROOT_DOMAIN
                        ELSE Strip(env["EXPECTED_MG_DOMAIN"])
        IN  /\ (~Blank(env["MAILGUN_DOMAIN"]) /\ configured # expected) =>
                 /\ pc = "done" /\ retStep = 1
                 /\ result = fail("mailgun_domain_mismatch",
                                  [expected |-> expected,
                                   actual |-> configured])
            /\ (~Blank(env["MAILGUN_DOMAIN"]) /\ configured = expected) =>
                 /\ results[1] = Entry("mailgun_domain", "ok", expected)
                 /\ result.code # "mailgun_domain_mismatch"
            /\ Blank(env["MAILGUN_DOMAIN"]) =>
                 /\ results[1].name = "mailgun_domain"
                 /\ results[1].status = "skip"
                 /\ result.code # "mailgun_domain_mismatch"

\* MAILGUN_DOMAIN = wrong.com against the default expected subdomain
C6_Witness ==
    /\ MailgunDone
    /\ env["MAILGUN_DOMAIN"] = << "wrong.com" >>
    /\ result.code = "mailgun_domain_mismatch"
    /\ result.data.expected = << "mg.", "insightpulseai.com" >>
    /\ result.data.actual = << "wrong.com" >>

\* the queries of a complete run, in the order of the steps 2 to 6
AllQueries ==
    << DigQuery("MX", ROOT_DOMAIN),
       DigQuery("TXT", ROOT_DOMAIN),
       DigQuery("TXT", << "_dmarc." >> \o ROOT_DOMAIN),
       DigQuery("TXT", EXPECTED_MG_DOMAIN),
       GetQuery(EXPECTED_MG_DOMAIN) >>

InStepOrder ==
    /\ Len(queries) <= Len(AllQueries)
    /\ queries = SubSeq(AllQueries, 1, Len(queries))
    /\ Len(seen) <= Len(queries)

C8_FailOnlyHard ==
    prog = "mailgun" =>
        /\ result.status = "fail" =>
              \/ result.code = "mailgun_domain_mismatch" /\ retStep = 1
              \/ /\ result.code = "mailgun_auth_failed" /\ retStep = 6
                 /\ seen[5].kind = "http_error" /\ seen[5].status = 401
              \/ /\ result.code = "mailgun_domain_not_found" /\ retStep = 6
                 /\ seen[5].kind = "http_error" /\ seen[5].status = 404
        /\ \A k \in 2..5 :
              (Len(seen) >= k - 1 /\ Unmet(k, seen[k - 1])) =>
                  \/ pc = "done" /\ retStep = k /\ result.status = "warn"
                  \/ k = 2 /\ results[2].name = "root_mx"
                           /\ results[2].status = "warn"

\* the subdomain SPF record of step 5 lacks mailgun.org: a warn, not a fail
C8_Witness ==
    /\ MailgunDone
    /\ Len(seen) = 4 /\ Unmet(5, seen[4]) /\ HasToken(seen[4], "v=spf1")
    /\ result.status = "warn"
    /\ result.code = "mg_spf_invalid"

Range(f) == {f[i] : i \in DOMAIN f}

\* the texts held by the entries of data.checks
CheckTexts(checks) ==
    UNION {IF checks[i].name = "root_mx" /\ checks[i].status = "ok"
           THEN Range(checks[i].detail)
           ELSE {checks[i].detail} : i \in DOMAIN checks}

\* every text a result carries in its data, except data.api_key
OtherTexts(r) ==
    LET d == r.data
    IN  CASE r.code = "mailgun_domain_mismatch" -> {d.expected, d.actual}
          [] r.code = "root_mx_not_zoho" ->
                {d.root_domain} \cup Range(d.mx_records) \cup Range(d.expected)
                \cup Range(d.found)
          [] r.code = "spf_missing" -> {d.root_domain, d.spf}
          [] r.code = "spf_missing_includes" ->
                {d.root_domain, d.spf} \cup Range(d.missing)
          [] r.code = "dmarc_missing" -> {d.root_domain, d.dmarc}
          [] r.code \in {"mg_spf_missing", "mg_spf_invalid"} ->
                {d.mg_domain, d.spf}
          [] r.code = "mailgun_dns_checks_passed" ->
                {d.root_domain, d.mg_domain} \cup CheckTexts(d.checks)
          [] r.code = "mailgun_auth_failed" -> {d.domain}
          [] r.code = "mailgun_domain_not_found" -> {d.domain}
          [] r.code = "mailgun_api_error" -> {d.domain, d.error}
          [] r.code = "mailgun_full_check_passed" ->
                {d.root_domain, d.mg_domain} \cup CheckTexts(d.checks)
          [] OTHER -> {}

HasApiKeyField(r) == "api_key" \in DOMAIN r.data

\* every text of the result, data.api_key included
AllTexts(r) ==
    OtherTexts(r) \cup (IF HasApiKeyField(r) THEN {r.data.api_key} ELSE {})

Http401 == Len(seen) = 5 /\ seen[5].kind = "http_error" /\ seen[5].status = 401

MaskedPart(key) ==
    IF Len(key) <= 4 THEN key ELSE SubSeq(key, 1, Len(key) - 4)

-----------------------------------------------------------------------------
(* C11: exceptions and the check boundary *)

\* the value run_cmd gives for a subprocess outcome is a result dictionary
CmdStructured(proc) ==
    LET r == run_cmd(proc, FALSE)
    IN  /\ ~IsRaised(r)
        /\ {"success", "returncode", "stdout", "stderr"} \subseteq DOMAIN r
        /\ proc.kind = "timeout" => ~r.success /\ r.error = "timeout"
        /\ proc.kind = "not_found" =>
              ~r.success /\ r.error = "command_not_found"

\* the value http_get gives for an HTTP outcome is a result dictionary
HttpStructured(resp) ==
    LET r == http_get(resp)
    IN  /\ ~IsRaised(r)
        /\ {"success", "status_code", "body"} \subseteq DOMAIN r

\* C11: no exception crosses the check boundary: for every outcome of every
\* external operation run_cmd, http_get and run() return a structured value
\* and never raise; a timeout is returned as success = false with error
\* 'timeout' and a missing executable with error 'command_not_found'.
C11_AsClaimed ==
    prog = "mailgun" =>
        /\ pc # "raised"
        /\ \A i \in 1..Len(seen) :
              IF queries[i].op = "GET"
              THEN HttpStructured(seen[i])
              ELSE CmdStructured(seen[i])

\* C11, the part that holds: every subprocess outcome, of dig in the Mailgun
\* check and of rg in the domain policy check, comes back from run_cmd as a
\* result dictionary with the timeout and the missing executable told apart.
C11_RunCmdNeverRaises ==
    /\ prog = "mailgun" =>
          \A i \in 1..Len(seen) : queries[i].op # "GET" => CmdStructured(seen[i])
    /\ prog = "domain_policy" =>
          \A i \in 1..Len(rgOut) : CmdStructured(rgOut[i])

\* C11, where it fails: run() is left by an exception exactly when the API
\* answered an HTTP error status whose body cannot be read as UTF-8; every
\* other HTTP outcome is returned as a value.
C11_RaisesOnUnreadableErrorBody ==
    prog = "mailgun" =>
        /\ pc = "raised" <=>
              /\ Len(seen) = 5
              /\ seen[5].kind = "http_error"
              /\ seen[5].fp /\ ~seen[5].readable
        /\ pc = "raised" => result = NoResult

-----------------------------------------------------------------------------
(* C12: what an invocation of the Mailgun check depends on *)

\* what one call of run() gives, as a function of the two configuration
\* values, the two secrets and the answers obs received from outside: the
\* returned result, or the exception of http_get; NoResult if the call asks
\* for more answers than obs holds
RunValue(root, expected, dom, key, obs) ==
    LET s1 == Check1(dom, expected)
        s2 == Check2(dig_mx(obs[1]), root)
        s3 == Check3(dig_txt(obs[2]), root)
        s4 == Check4(dig_txt(obs[3]), root)
        s5 == Check5(dig_txt(obs[4]), expected)
        res == << s1.entry, s2.entry, s3.entry, s4.entry, s5.entry >>
        response == http_get(obs[5])
        n == Len(obs)
    IN  IF s1.returned THEN s1.value
        ELSE IF n < 1 THEN NoResult
        ELSE IF s2.returned THEN s2.value
        ELSE IF n < 2 THEN NoResult
        ELSE IF s3.returned THEN s3.value
        ELSE IF n < 3 THEN NoResult
        ELSE IF s4.returned THEN s4.value
        ELSE IF n < 4 THEN NoResult
        ELSE IF s5.returned THEN s5.value
        ELSE IF ApiSkipped(key, dom) THEN SkipResult(res, root, expected)
        ELSE IF n < 5 THEN NoResult
        ELSE IF IsRaised(response) THEN response
        ELSE Check6(response, res, key, dom, root)

\* the value of a variable in environment e, trimmed, with its default
EnvRoot(e) == Strip(getenv(e, "ROOT_DOMAIN", << "insightpulseai.com" >>))
EnvExpected(e) ==
    Strip(getenv(e, "EXPECTED_MG_DOMAIN", << "mg." >> \o EnvRoot(e)))
EnvSecret(e, name) == Strip(getenv(e, name, << >>))

\* the call that has ended gave the value v
CallGave(v) ==
    /\ pc = "done" => result = v
    /\ pc = "raised" => IsRaised(v)

CallEnded == prog = "mailgun" /\ pc \in {"done", "raised"}

\* C12: every invocation of Mailgun run() uses the values of ROOT_DOMAIN,
\* EXPECTED_MG_DOMAIN, MAILGUN_DOMAIN and MAILGUN_API_KEY that are in the
\* environment when that invocation starts; its result depends only on that
\* environment and the external observations of that invocation.
C12_AsClaimed ==
    CallEnded =>
        CallGave(RunValue(EnvRoot(env), EnvExpected(env),
                          EnvSecret(env, "MAILGUN_DOMAIN"),
                          EnvSecret(env, "MAILGUN_API_KEY"), seen))

\* C12 amended: MAILGUN_DOMAIN and MAILGUN_API_KEY are read from the
\* environment when each invocation starts; ROOT_DOMAIN and
\* EXPECTED_MG_DOMAIN are read once, when the module is loaded, and every
\* invocation uses those load-time values whatever the environment has
\* become.  The result of an invocation depends only on these four values
\* and on the external observations of that invocation, not on earlier
\* invocations.
C12_LoadTimeConfig ==
    prog = "mailgun" =>
        /\ ROOT_DOMAIN = EnvRoot(loadEnv)
        /\ EXPECTED_MG_DOMAIN = EnvExpected(loadEnv)
        /\ CallEnded =>
              CallGave(RunValue(EnvRoot(loadEnv), EnvExpected(loadEnv),
                                EnvSecret(env, "MAILGUN_DOMAIN"),
                                EnvSecret(env, "MAILGUN_API_KEY"), seen))

\* a later invocation passes all six steps for the load-time root domain
\* after ROOT_DOMAIN and both secrets were changed in the environment
C12_Witness ==
    /\ prog = "mailgun" /\ pc = "done" /\ calls >= 1
    /\ loadEnv = NoEnv
    /\ env["ROOT_DOMAIN"] = << "example.org" >>
    /\ env["MAILGUN_DOMAIN"] = << "mg.", "insightpulseai.com" >>
    /\ env["MAILGUN_API_KEY"] = << "k" >>
    /\ result.code = "mailgun_full_check_passed"
    /\ result.data.root_domain = << "insightpulseai.com" >>
    /\ result.data.api_key = << "*" >>

====
